---- MODULE Spec2Model ----
(***************************************************************************)
(* Video resource lifecycle of the video-catalog backend:                  *)
(*   - the relational catalog (users, categories, videos, comments, likes) *)
(*     with the constraints declared in models.py,                         *)
(*   - the external media provider (Vimeo) and the thumbnail directory,    *)
(*   - the request handlers of routers/videos.py and routers/likes.py      *)
(*     together with the crud.py functions they call, one action per       *)
(*     await point / statement group of a handler,                         *)
(*   - the crud.py functions for comments, users and categories, and the   *)
(*     readers of single videos, counts and listing pages.                 *)
(* Every request runs on its own database session; sessions see only       *)
(* committed rows, and the statements of one session are made visible to   *)
(* the others atomically at commit.                                        *)
(***************************************************************************)
EXTENDS Integers, FiniteSets, Sequences, TLC

\* ---------------------------------------------------------------- bounds
NumUsers == 2
NumVideos == 2
NumLikeReqs == 2
MaxCreates == 2
NumCategories == 1
MaxComments == 2
MaxDeletes == 2
MaxUpdates == 1
MaxPages == 2

\* Python None / SQL NULL of an optional id; a missing upload or string.
NULL == 0
NoFile == "none"
NoPath == <<>>

Users == 1..NumUsers
VideoIds == 1..NumVideos
LikeProcs == 1..NumLikeReqs
CategoryIds == 1..NumCategories

VARIABLES
    users,        \* rows of table users (ids)
    categories,   \* rows of table categories (ids)
    videos,       \* rows of table videos
    comments,     \* rows of table comments
    likes,        \* rows of table likes
    vimeo,        \* assets held by the media provider
    thumbnails,   \* files in the thumbnails directory
    tempfiles,    \* temporary files on local disk
    providerLog,  \* calls issued to the media provider, in order
    likeReq,      \* like / unlike requests in flight
    createReq,    \* the create_video request in flight
    deleteReq,    \* the delete_video request in flight
    updateReq,    \* the update_video request in flight
    crudReq,      \* the comment / user / category call in flight
    readReq       \* the read request in flight and what it was answered

catalogVars == <<users, categories, videos, comments, likes>>
externVars == <<vimeo, thumbnails, tempfiles, providerLog>>
otherReqs == <<updateReq, crudReq, readReq>>
vars == <<users, categories, videos, comments, likes, vimeo, thumbnails,
          tempfiles, providerLog, likeReq, createReq, deleteReq, updateReq,
          crudReq, readReq>>

\* ------------------------------------------------------- catalog helpers
\* A fresh primary key (uuid4 in the source): any value not in use.
NewId(used) == CHOOSE i \in 1..(Cardinality(used) + 1) : i \notin used

VideoExists(v) == \E r \in videos : r.id = v

\* Table likes is kept as the number of rows of each (user_id, video_id)
\* pair: the rows' own ids and timestamps are read by no handler.
Pairs == Users \X VideoIds

NoLikes == [pr \in Pairs |-> 0]

\* UniqueConstraint('user_id', 'video_id') on table likes: an INSERT of a
\* second row for the pair is rejected by the store.
NoUniqueConstraint(u, v) == FALSE

ViolatesUniqueUserVideoLike(u, v) == likes[<<u, v>>] > 0

\* ForeignKey("users.id") and ForeignKey("videos.id") of a likes row.
ViolatesLikeForeignKeys(u, v) == u \notin users \/ ~VideoExists(v)

RECURSIVE SumOver(_, _)
SumOver(f, S) ==
    IF S = {} THEN 0
    ELSE LET x == CHOOSE y \in S : TRUE IN f[x] + SumOver(f, S \ {x})

\* crud.get_like_count: COUNT of the likes rows of the video.
get_like_count_ByUser(v) == SumOver(likes, {pr \in Pairs : pr[1] = v})

get_like_count(v) == SumOver(likes, {pr \in Pairs : pr[2] = v})

\* crud.get_comment_count: COUNT of the comments rows of the video.
get_comment_count(v) == Cardinality({c \in comments : c.video_id = v})

\* ------------------------------------------------------ like / unlike
\* A worker between requests keeps the answer it sent last.
IdleLikeReq(exc, status) ==
    [pc |-> "idle", op |-> "none", user_id |-> NULL, video_id |-> NULL,
     stale |-> FALSE, exc |-> exc, status |-> status]

\* routers/likes.py add_like: ValueError becomes 400, anything else that
\* escapes the handler is answered 500 by the framework.
AddLikeStatus(exc) ==
    CASE exc = "none" -> "200"
      [] exc = "ValueError" -> "400"
      [] OTHER -> "500"

\* routers/likes.py remove_like: ValueError becomes 404.
RemoveLikeStatus(exc) ==
    CASE exc = "none" -> "200"
      [] exc = "ValueError" -> "404"
      [] OTHER -> "500"

\* crud.add_like up to the result of its first await: the existence check.
AddLikeSelect_NoCheck(p, u, v) ==
    /\ likeReq[p].pc = "idle"
    /\ likeReq' = [likeReq EXCEPT ![p] =
            [pc |-> "insert", op |-> "add", user_id |-> u, video_id |-> v,
             stale |-> FALSE, exc |-> "none", status |-> "none"]]
    /\ UNCHANGED <<catalogVars, externVars, createReq, deleteReq, otherReqs>>

AddLikeSelect(p, u, v) ==
    /\ likeReq[p].pc = "idle"
    /\ IF likes[<<u, v>>] > 0
       THEN likeReq' = [likeReq EXCEPT ![p] =
                IdleLikeReq("ValueError", AddLikeStatus("ValueError"))]
       ELSE likeReq' = [likeReq EXCEPT ![p] =
                [pc |-> "insert", op |-> "add", user_id |-> u,
                 video_id |-> v, stale |-> FALSE, exc |-> "none",
                 status |-> "none"]]
    /\ UNCHANGED <<catalogVars, externVars, createReq, deleteReq, otherReqs>>

\* crud.add_like from db.add to the return: INSERT and COMMIT. A rejected
\* INSERT raises IntegrityError, which names the constraint that failed.
AddLikeCommit(p) ==
    LET r == likeReq[p] IN
    /\ r.pc = "insert"
    /\ IF ViolatesLikeForeignKeys(r.user_id, r.video_id)
       THEN /\ likes' = likes
            /\ likeReq' = [likeReq EXCEPT ![p] =
                    IdleLikeReq("IntegrityError(foreign key)",
                                AddLikeStatus("IntegrityError(foreign key)"))]
       ELSE IF ViolatesUniqueUserVideoLike(r.user_id, r.video_id)
       THEN /\ likes' = likes
            /\ likeReq' = [likeReq EXCEPT ![p] =
                    IdleLikeReq("IntegrityError(unique_user_video_like)",
                                AddLikeStatus("IntegrityError(unique_user_video_like)"))]
       ELSE /\ likes' = [likes EXCEPT ![<<r.user_id, r.video_id>>] = @ + 1]
            /\ likeReq' = [likeReq EXCEPT ![p] =
                    IdleLikeReq("none", AddLikeStatus("none"))]
    /\ UNCHANGED <<users, categories, videos, comments, externVars,
                   createReq, deleteReq, otherReqs>>

\* crud.remove_like up to the lookup of the row.
RemoveLikeSelect(p, u, v) ==
    /\ likeReq[p].pc = "idle"
    /\ IF likes[<<u, v>>] = 0
       THEN likeReq' = [likeReq EXCEPT ![p] =
                IdleLikeReq("ValueError", RemoveLikeStatus("ValueError"))]
       ELSE likeReq' = [likeReq EXCEPT ![p] =
                [pc |-> "delete", op |-> "remove", user_id |-> u,
                 video_id |-> v, stale |-> FALSE, exc |-> "none",
                 status |-> "none"]]
    /\ UNCHANGED <<catalogVars, externVars, createReq, deleteReq, otherReqs>>

\* crud.remove_like from db.delete to the return: DELETE of the looked-up
\* row by primary key and COMMIT. A row that another session removed in
\* the meantime (stale) matches nothing; the sessions that looked up the
\* row removed here hold a stale row from now on.
RemoveLikeCommit(p) ==
    LET r == likeReq[p]
        hit == ~r.stale /\ likes[<<r.user_id, r.video_id>>] > 0
    IN
    /\ r.pc = "delete"
    /\ likes' = IF hit
                THEN [likes EXCEPT ![<<r.user_id, r.video_id>>] = @ - 1]
                ELSE likes
    /\ likeReq' = [q \in LikeProcs |->
            IF q = p THEN IdleLikeReq("none", RemoveLikeStatus("none"))
            ELSE IF /\ hit
                    /\ likeReq[q].pc = "delete"
                    /\ likeReq[q].user_id = r.user_id
                    /\ likeReq[q].video_id = r.video_id
                 THEN [likeReq[q] EXCEPT !.stale = TRUE]
                 ELSE likeReq[q]]
    /\ UNCHANGED <<users, categories, videos, comments, externVars,
                   createReq, deleteReq, otherReqs>>

\* ------------------------------------------------------- create_video
VideoTypes == {"video/mp4", "video/quicktime", "video/x-msvideo"}
ThumbnailTypes == {"image/jpeg", "image/png", "image/gif"}

\* Declared content types a client may send (one outside each allow-list).
SentVideoTypes == VideoTypes \cup {"application/pdf"}
SentThumbnailTypes == {"image/jpeg", "image/bmp"}

IdleCreateReq(n) ==
    [pc |-> "idle", n |-> n, content_type |-> NoFile, thumbnail |-> NoFile,
     category_id |-> NULL, temp_path |-> NoPath, thumbnail_path |-> NoPath,
     vimeo_data |-> NULL, thumbnail_url |-> NULL, db_video |-> NULL,
     failed_at |-> "none", status |-> "none", detail |-> "none"]

\* Names of the temporary files of attempt n.
VideoTemp(n) == <<"video", n>>
ThumbTemp(n) == <<"thumbnail", n>>

\* raise HTTPException(status, detail) inside the outer try: control goes
\* to the finally block with the response decided.
CreateRaise(r, status, detail) ==
    [r EXCEPT !.pc = "finally", !.failed_at = r.pc, !.status = status,
              !.detail = detail]

\* A request arrives: title, category_id, file and optional thumbnail.
CreateStart(ct, th, cat) ==
    /\ createReq.pc = "idle"
    /\ createReq.n < MaxCreates
    /\ createReq' = [IdleCreateReq(createReq.n + 1) EXCEPT
                        !.pc = "validate", !.content_type = ct,
                        !.thumbnail = th, !.category_id = cat]
    /\ UNCHANGED <<catalogVars, externVars, likeReq, deleteReq, otherReqs>>

\* Lines 32-37: the video's declared type against the allow-list.
CreateValidate_AcceptAll ==
    /\ createReq.pc = "validate"
    /\ createReq' = [createReq EXCEPT !.pc = "save_temp"]
    /\ UNCHANGED <<catalogVars, externVars, likeReq, deleteReq, otherReqs>>

CreateValidate ==
    /\ createReq.pc = "validate"
    /\ createReq' = IF createReq.content_type \notin VideoTypes
                    THEN CreateRaise(createReq, "415", "Unsupported file type")
                    ELSE [createReq EXCEPT !.pc = "save_temp"]
    /\ UNCHANGED <<catalogVars, externVars, likeReq, deleteReq, otherReqs>>

\* Lines 39-43: NamedTemporaryFile(delete=False) creates the file; temp_path
\* is assigned only after the upload was read and written into it.
CreateSaveTemp(ok) ==
    /\ createReq.pc = "save_temp"
    /\ tempfiles' = tempfiles \cup {VideoTemp(createReq.n)}
    /\ createReq' = IF ok
                    THEN [createReq EXCEPT !.pc = "thumb_check",
                                           !.temp_path = VideoTemp(createReq.n)]
                    ELSE CreateRaise(createReq, "500", "An unexpected error occurred")
    /\ UNCHANGED <<catalogVars, vimeo, thumbnails, providerLog, likeReq, deleteReq,
                   otherReqs>>

\* Lines 45-51: the thumbnail's declared type, when one was supplied.
CreateThumbCheck_AfterUpload ==
    /\ createReq.pc = "thumb_check"
    /\ createReq' =
         IF createReq.thumbnail = NoFile
         THEN [createReq EXCEPT !.pc = "upload"]
         ELSE [createReq EXCEPT !.pc = "save_thumb_temp"]
    /\ UNCHANGED <<catalogVars, externVars, likeReq, deleteReq, otherReqs>>

CreateThumbCheck ==
    /\ createReq.pc = "thumb_check"
    /\ createReq' =
         IF createReq.thumbnail = NoFile
         THEN [createReq EXCEPT !.pc = "upload"]
         ELSE IF createReq.thumbnail \notin ThumbnailTypes
         THEN CreateRaise(createReq, "415", "Unsupported thumbnail type")
         ELSE [createReq EXCEPT !.pc = "save_thumb_temp"]
    /\ UNCHANGED <<catalogVars, externVars, likeReq, deleteReq, otherReqs>>

\* Lines 52-55: the thumbnail's temporary file.
CreateSaveThumbTemp(ok) ==
    /\ createReq.pc = "save_thumb_temp"
    /\ tempfiles' = tempfiles \cup {ThumbTemp(createReq.n)}
    /\ createReq' = IF ok
                    THEN [createReq EXCEPT !.pc = "upload",
                                           !.thumbnail_path = ThumbTemp(createReq.n)]
                    ELSE CreateRaise(createReq, "500", "An unexpected error occurred")
    /\ UNCHANGED <<catalogVars, vimeo, thumbnails, providerLog, likeReq, deleteReq,
                   otherReqs>>

\* Lines 57-64: upload_to_vimeo; the provider answers with the new asset or
\* the call raises.
CreateUpload_ContinueOnFailure(ok) ==
    /\ createReq.pc = "upload"
    /\ providerLog' = Append(providerLog, <<"upload", createReq.n>>)
    /\ vimeo' = IF ok THEN vimeo \cup {createReq.n} ELSE vimeo
    /\ createReq' = [createReq EXCEPT !.pc = "store_thumb",
                                      !.vimeo_data = createReq.n]
    /\ UNCHANGED <<catalogVars, thumbnails, tempfiles, likeReq, deleteReq,
                   otherReqs>>

CreateUpload_RetryOnce(ok) ==
    /\ createReq.pc = "upload"
    /\ providerLog' = Append(providerLog, <<"upload", createReq.n>>)
    /\ IF ok
       THEN /\ vimeo' = vimeo \cup {createReq.n}
            /\ createReq' = [createReq EXCEPT !.pc = "store_thumb",
                                              !.vimeo_data = createReq.n]
       ELSE /\ vimeo' = vimeo
            /\ createReq' =
                 IF \E i \in DOMAIN providerLog :
                       providerLog[i] = <<"upload", createReq.n>>
                 THEN CreateRaise(createReq, "500",
                                  "Failed to upload video to Vimeo")
                 ELSE createReq
    /\ UNCHANGED <<catalogVars, thumbnails, tempfiles, likeReq, deleteReq,
                   otherReqs>>

CreateUpload(ok) ==
    /\ createReq.pc = "upload"
    /\ providerLog' = Append(providerLog, <<"upload", createReq.n>>)
    /\ IF ok
       THEN /\ vimeo' = vimeo \cup {createReq.n}
            /\ createReq' = [createReq EXCEPT !.pc = "store_thumb",
                                              !.vimeo_data = createReq.n]
       ELSE /\ vimeo' = vimeo
            /\ createReq' = CreateRaise(createReq, "500",
                                        "Failed to upload video to Vimeo")
    /\ UNCHANGED <<catalogVars, thumbnails, tempfiles, likeReq, deleteReq,
                   otherReqs>>

\* Lines 66-80: move the thumbnail into the thumbnails directory.
CreateStoreThumb(ok) ==
    /\ createReq.pc = "store_thumb"
    /\ IF createReq.thumbnail_path = NoPath
       THEN /\ createReq' = [createReq EXCEPT !.pc = "persist"]
            /\ UNCHANGED <<thumbnails, tempfiles>>
       ELSE IF ok
       THEN /\ thumbnails' = thumbnails \cup {createReq.n}
            /\ tempfiles' = tempfiles \ {createReq.thumbnail_path}
            /\ createReq' = [createReq EXCEPT !.pc = "persist",
                                              !.thumbnail_url = createReq.n]
       ELSE /\ createReq' = CreateRaise(createReq, "500",
                                        "Failed to upload thumbnail")
            /\ UNCHANGED <<thumbnails, tempfiles>>
    /\ UNCHANGED <<catalogVars, vimeo, providerLog, likeReq, deleteReq,
                   otherReqs>>

\* crud.create_video: INSERT of the videos row and COMMIT. The row's
\* category_id is a foreign key to categories.
crud_create_video(r) ==
    [id |-> NewId({x.id : x \in videos}), title |-> "title",
     category_id |-> r.category_id, vimeo_id |-> r.vimeo_data,
     thumbnail_url |-> r.thumbnail_url]

\* Lines 82-101: persist the record; any exception becomes one 500.
CreatePersist(ok) ==
    /\ createReq.pc = "persist"
    /\ IF ok /\ createReq.category_id \in categories
       THEN /\ videos' = videos \cup {crud_create_video(createReq)}
            /\ createReq' = [createReq EXCEPT
                                !.pc = "finally", !.status = "200",
                                !.db_video = crud_create_video(createReq).id]
       ELSE /\ videos' = videos
            /\ createReq' = CreateRaise(createReq, "500",
                                        "Failed to save video to database")
    /\ UNCHANGED <<users, categories, comments, likes, externVars,
                   likeReq, deleteReq, otherReqs>>

\* Lines 122-133: the finally block removes the temporary files it knows;
\* a failing os.remove is printed and ignored.
CreateFinally(rmVideo, rmThumb) ==
    /\ createReq.pc = "finally"
    /\ tempfiles' = tempfiles \
          ((IF createReq.temp_path # NoPath /\ rmVideo
            THEN {createReq.temp_path} ELSE {}) \cup
           (IF createReq.thumbnail_path # NoPath /\ rmThumb
            THEN {createReq.thumbnail_path} ELSE {}))
    /\ createReq' = [createReq EXCEPT !.pc = "done"]
    /\ UNCHANGED <<catalogVars, vimeo, thumbnails, providerLog, likeReq, deleteReq,
                   otherReqs>>

\* The response is sent; the next request may arrive.
CreateRespond ==
    /\ createReq.pc = "done"
    /\ createReq' = IdleCreateReq(createReq.n)
    /\ UNCHANGED <<catalogVars, externVars, likeReq, deleteReq, otherReqs>>

\* ------------------------------------------------------- delete_video
IdleDeleteReq(n) ==
    [pc |-> "idle", n |-> n, video_id |-> NULL, video |-> {}, comments |-> {},
     likes |-> {}, tx_comments |-> {}, tx_likes |-> {}, tx_video |-> FALSE,
     response |-> "none", failed_at |-> "none", status |-> "none",
     detail |-> "none"]

\* Answers of the provider to DELETE /videos/{vimeo_id}; "raise" is a call
\* that raises instead of answering.
DeleteResponses == {"204", "404", "500", "raise"}

\* An exception leaves the `async with db.begin()` block: the session rolls
\* the transaction back, the handler answers with the error.
DeleteRaise(r, status, detail) ==
    [r EXCEPT !.pc = "done", !.tx_comments = {}, !.tx_likes = {},
              !.tx_video = FALSE, !.failed_at = r.pc,
              !.status = status, !.detail = detail]

\* A request arrives for video_id.
DeleteStart(v) ==
    /\ deleteReq.pc = "idle"
    /\ deleteReq.n < MaxDeletes
    /\ deleteReq' = [IdleDeleteReq(deleteReq.n + 1) EXCEPT
                        !.pc = "load", !.video_id = v]
    /\ UNCHANGED <<catalogVars, externVars, likeReq, createReq, otherReqs>>

\* Lines 238-251: begin the transaction and load the video with its
\* comments and likes.
DeleteLoad ==
    LET v == deleteReq.video_id
        found == {r \in videos : r.id = v}
    IN
    /\ deleteReq.pc = "load"
    /\ deleteReq' =
         IF found = {}
         THEN DeleteRaise(deleteReq, "404", "Video not found")
         ELSE [deleteReq EXCEPT
                  !.pc = "vimeo", !.video = found,
                  !.comments = {c \in comments : c.video_id = v},
                  !.likes = {pr \in Pairs : pr[2] = v /\ likes[pr] > 0}]
    /\ UNCHANGED <<catalogVars, externVars, likeReq, createReq, otherReqs>>

\* Lines 253-266: delete the asset at the provider first (no call for a
\* video without vimeo_id); any answer but 204, and any exception, aborts
\* the request with a 500. The provider answers 404 for an asset it does
\* not hold and removes the asset when it answers 204.
DeleteVimeo_IgnoreStatus(resp) ==
    LET row == CHOOSE r \in deleteReq.video : TRUE IN
    /\ deleteReq.pc = "vimeo"
    /\ row.vimeo_id # NULL
    /\ IF row.vimeo_id \in vimeo THEN resp # "404" ELSE resp # "204"
    /\ providerLog' = Append(providerLog, <<"delete", row.vimeo_id>>)
    /\ vimeo' = IF resp = "204" THEN vimeo \ {row.vimeo_id} ELSE vimeo
    /\ deleteReq' = [deleteReq EXCEPT !.pc = "comments", !.response = resp]
    /\ UNCHANGED <<catalogVars, thumbnails, tempfiles, likeReq, createReq,
                   otherReqs>>

DeleteVimeo(resp) ==
    LET row == CHOOSE r \in deleteReq.video : TRUE IN
    /\ deleteReq.pc = "vimeo"
    /\ IF row.vimeo_id = NULL
       THEN /\ deleteReq' = [deleteReq EXCEPT !.pc = "comments"]
            /\ UNCHANGED <<vimeo, providerLog>>
       ELSE /\ IF row.vimeo_id \in vimeo THEN resp # "404" ELSE resp # "204"
            /\ providerLog' = Append(providerLog, <<"delete", row.vimeo_id>>)
            /\ vimeo' = IF resp = "204" THEN vimeo \ {row.vimeo_id} ELSE vimeo
            /\ deleteReq' =
                 IF resp = "204"
                 THEN [deleteReq EXCEPT !.pc = "comments", !.response = resp]
                 ELSE DeleteRaise([deleteReq EXCEPT !.response = resp],
                                  "500", "Vimeo API error")
    /\ UNCHANGED <<catalogVars, thumbnails, tempfiles, likeReq, createReq,
                   otherReqs>>

\* Lines 268-270: DELETE FROM comments WHERE video_id = ..., inside the
\* transaction, when the loaded video has comments.
DeleteComments_Autocommit ==
    LET v == deleteReq.video_id IN
    /\ deleteReq.pc = "comments"
    /\ comments' = IF deleteReq.comments # {}
                   THEN {c \in comments : c.video_id # v} ELSE comments
    /\ deleteReq' = [deleteReq EXCEPT !.pc = "likes"]
    /\ UNCHANGED <<users, categories, videos, likes, externVars, likeReq, createReq,
                   otherReqs>>

DeleteComments ==
    LET v == deleteReq.video_id IN
    /\ deleteReq.pc = "comments"
    /\ deleteReq' = [deleteReq EXCEPT
            !.pc = "likes",
            !.tx_comments = IF deleteReq.comments # {}
                            THEN {c \in comments : c.video_id = v} ELSE {}]
    /\ UNCHANGED <<catalogVars, externVars, likeReq, createReq, otherReqs>>

\* Lines 272-274: DELETE FROM likes WHERE video_id = ..., inside the
\* transaction, when the loaded video has likes.
DeleteLikes_Autocommit ==
    LET v == deleteReq.video_id IN
    /\ deleteReq.pc = "likes"
    /\ likes' = IF deleteReq.likes # {}
                THEN [pr \in Pairs |-> IF pr[2] = v THEN 0 ELSE likes[pr]]
                ELSE likes
    /\ deleteReq' = [deleteReq EXCEPT !.pc = "video"]
    /\ UNCHANGED <<users, categories, videos, comments, externVars, likeReq,
                   createReq, otherReqs>>

DeleteLikes ==
    LET v == deleteReq.video_id IN
    /\ deleteReq.pc = "likes"
    /\ deleteReq' = [deleteReq EXCEPT
            !.pc = "video",
            !.tx_likes = IF deleteReq.likes # {}
                         THEN {pr \in Pairs : pr[2] = v /\ likes[pr] > 0}
                         ELSE {}]
    /\ UNCHANGED <<catalogVars, externVars, likeReq, createReq, otherReqs>>

\* Lines 276-277: db.delete(video) marks the row for deletion; the DELETE
\* is flushed with the commit.
DeleteVideoRow ==
    /\ deleteReq.pc = "video"
    /\ deleteReq' = [deleteReq EXCEPT !.pc = "thumbnail", !.tx_video = TRUE]
    /\ UNCHANGED <<catalogVars, externVars, likeReq, createReq, otherReqs>>

\* Lines 279-287: remove the thumbnail file of a "/thumbnails/..." url,
\* still inside the transaction block; a failing os.remove is printed and
\* ignored.
DeleteThumbnail_Raising(ok) ==
    LET row == CHOOSE r \in deleteReq.video : TRUE IN
    /\ deleteReq.pc = "thumbnail"
    /\ UNCHANGED thumbnails
    /\ deleteReq' = IF row.thumbnail_url # NULL /\ ~ok
                    THEN DeleteRaise(deleteReq, "500", "Failed to delete video")
                    ELSE [deleteReq EXCEPT !.pc = "commit"]
    /\ UNCHANGED <<catalogVars, vimeo, tempfiles, providerLog, likeReq, createReq,
                   otherReqs>>

DeleteThumbnail(ok) ==
    LET row == CHOOSE r \in deleteReq.video : TRUE IN
    /\ deleteReq.pc = "thumbnail"
    /\ thumbnails' = IF row.thumbnail_url # NULL /\ ok
                     THEN thumbnails \ {row.thumbnail_url} ELSE thumbnails
    /\ deleteReq' = [deleteReq EXCEPT !.pc = "commit"]
    /\ UNCHANGED <<catalogVars, vimeo, tempfiles, providerLog, likeReq, createReq,
                   otherReqs>>

\* Rows that still reference the video once the transaction's own deletes
\* are applied: the foreign keys of comments.video_id and likes.video_id
\* reject the DELETE of the videos row while such rows exist.
NoVideoForeignKeys(r) == FALSE

ViolatesVideoForeignKeys(r) ==
    \/ \E c \in comments \ r.tx_comments : c.video_id = r.video_id
    \/ \E pr \in Pairs \ r.tx_likes : pr[2] = r.video_id /\ likes[pr] > 0

\* Line 238, leaving the block: flush and COMMIT. The deletes of the
\* transaction become visible together, or the commit fails, everything is
\* rolled back and the handler answers 500 (lines 293-297).
DeleteCommit(ok) ==
    LET r == deleteReq IN
    /\ r.pc = "commit"
    /\ IF ok /\ ~ViolatesVideoForeignKeys(r)
       THEN /\ comments' = comments \ r.tx_comments
            /\ likes' = [pr \in Pairs |->
                            IF pr \in r.tx_likes THEN 0 ELSE likes[pr]]
            /\ videos' = {x \in videos : x.id # r.video_id}
            /\ deleteReq' = [r EXCEPT !.pc = "done", !.status = "200",
                                      !.detail = "Video deleted successfully"]
       ELSE /\ UNCHANGED <<comments, likes, videos>>
            /\ deleteReq' = DeleteRaise(r, "500", "Failed to delete video")
    /\ UNCHANGED <<users, categories, externVars, likeReq, createReq,
                   otherReqs>>

\* Any database statement inside the transaction block may raise (lost
\* connection, cancelled request): rollback, then 500 by lines 293-297.
\* Lines 279-287 await nothing and catch every Exception, so nothing is
\* raised between db.delete and the commit.
DeleteAbort ==
    /\ deleteReq.pc \in {"comments", "likes", "video"}
    /\ deleteReq' = DeleteRaise(deleteReq, "500", "Failed to delete video")
    /\ UNCHANGED <<catalogVars, externVars, likeReq, createReq, otherReqs>>

\* The response is sent; the next request may arrive.
DeleteRespond ==
    /\ deleteReq.pc = "done"
    /\ deleteReq' = IdleDeleteReq(deleteReq.n)
    /\ UNCHANGED <<catalogVars, externVars, likeReq, createReq, otherReqs>>

\* ------------------------------------------------------- update_video
\* schemas.VideoUpdate: the fields a patch can carry; model_dump with
\* exclude_unset keeps the ones the client sent (keys).
VideoUpdateFields_WithVimeoId ==
    {"title", "category_id", "thumbnail_url", "vimeo_id"}

VideoUpdateFields == {"title", "category_id", "thumbnail_url"}

\* File name of the thumbnail written by update request n (a fresh uuid4:
\* no name of a create request, no name of another update request).
UpdateThumb(n) == -n

\* A thumbnail_url sent inside a patch: a url that names no file written
\* by any request.
ExternalUrl == -(MaxUpdates + 1)

\* Values a client may send: a category that exists or not, or null.
PatchCategories == {NULL} \cup CategoryIds \cup {NumCategories + 1}
PatchUrls == {NULL, ExternalUrl}

\* update_data: the keys sent and their values.
Patch(keys, cat, url) ==
    [keys |-> keys, title |-> "retitled", category_id |-> cat,
     thumbnail_url |-> url, vimeo_id |-> NULL]

NoPatch == Patch({}, NULL, NULL)

IdleUpdateReq(n) ==
    [pc |-> "idle", n |-> n, video_id |-> NULL, patch |-> NoPatch,
     thumbnail |-> NoFile, video |-> {}, dirty |-> {}, stored |-> NULL,
     commit_called |-> FALSE, failed_at |-> "none", status |-> "none",
     detail |-> "none"]

\* raise HTTPException(status, detail), or an exception nobody catches
\* (answered 500 by the framework): the request ends, the session is closed
\* without a commit.
UpdateRaise(r, status, detail) ==
    [r EXCEPT !.pc = "done", !.failed_at = r.pc, !.status = status,
              !.detail = detail]

\* A request arrives: video_id, the JSON patch and an optional thumbnail.
UpdateStart(v, patch, th) ==
    /\ updateReq.pc = "idle"
    /\ updateReq.n < MaxUpdates
    /\ updateReq' = [IdleUpdateReq(updateReq.n + 1) EXCEPT
                        !.pc = "load", !.video_id = v, !.patch = patch,
                        !.thumbnail = th]
    /\ UNCHANGED <<catalogVars, externVars, likeReq, createReq, deleteReq,
                   crudReq, readReq>>

\* Lines 169-175: SELECT the video; 404 when there is none.
UpdateLoad ==
    LET found == {r \in videos : r.id = updateReq.video_id} IN
    /\ updateReq.pc = "load"
    /\ updateReq' = IF found = {}
                    THEN UpdateRaise(updateReq, "404", "Video not found")
                    ELSE [updateReq EXCEPT !.pc = "category",
                                           !.video = found, !.dirty = found]
    /\ UNCHANGED <<catalogVars, externVars, likeReq, createReq, deleteReq,
                   crudReq, readReq>>

\* Lines 177-182: a category_id sent and not null must name a category.
UpdateCheckCategory_Skip ==
    /\ updateReq.pc = "category"
    /\ updateReq' = [updateReq EXCEPT !.pc = "thumbnail"]
    /\ UNCHANGED <<catalogVars, externVars, likeReq, createReq, deleteReq,
                   crudReq, readReq>>

UpdateCheckCategory ==
    LET p == updateReq.patch IN
    /\ updateReq.pc = "category"
    /\ updateReq' =
         IF /\ "category_id" \in p.keys
            /\ p.category_id # NULL
            /\ p.category_id \notin categories
         THEN UpdateRaise(updateReq, "400", "Invalid category_id.")
         ELSE [updateReq EXCEPT !.pc = "thumbnail"]
    /\ UNCHANGED <<catalogVars, externVars, likeReq, createReq, deleteReq,
                   crudReq, readReq>>

\* Outcomes of writing the thumbnail file: written, failed before open()
\* created the file, failed after (the file stays).
WriteOutcomes == {"written", "open failed", "write failed"}

\* Lines 184-205: the thumbnail's declared type, then the new file in the
\* thumbnails directory and its url on the loaded video. The file the
\* video named before is not removed.
UpdateThumbnail(outcome) ==
    LET row == CHOOSE r \in updateReq.dirty : TRUE
        name == UpdateThumb(updateReq.n)
    IN
    /\ updateReq.pc = "thumbnail"
    /\ IF updateReq.thumbnail = NoFile
       THEN /\ updateReq' = [updateReq EXCEPT !.pc = "commit"]
            /\ thumbnails' = thumbnails
       ELSE IF updateReq.thumbnail \notin ThumbnailTypes
       THEN /\ updateReq' = UpdateRaise(updateReq, "415",
                                        "Unsupported thumbnail type")
            /\ thumbnails' = thumbnails
       ELSE IF outcome = "written"
       THEN /\ thumbnails' = thumbnails \cup {name}
            /\ updateReq' = [updateReq EXCEPT
                    !.pc = "commit", !.stored = name,
                    !.dirty = {[row EXCEPT !.thumbnail_url = name]}]
       ELSE /\ thumbnails' = IF outcome = "write failed"
                             THEN thumbnails \cup {name} ELSE thumbnails
            /\ updateReq' = UpdateRaise(
                    [updateReq EXCEPT !.stored =
                        IF outcome = "write failed" THEN name ELSE NULL],
                    "500", "Failed to upload thumbnail")
    /\ UNCHANGED <<catalogVars, vimeo, tempfiles, providerLog, likeReq,
                   createReq, deleteReq, crudReq, readReq>>

\* Lines 207-209: setattr(video, key, value) for every key of update_data.
ApplyPatch_Replace(row, p) ==
    [id |-> row.id,
     title |-> IF "title" \in p.keys THEN p.title ELSE "title",
     category_id |-> IF "category_id" \in p.keys THEN p.category_id ELSE NULL,
     vimeo_id |-> row.vimeo_id,
     thumbnail_url |-> IF "thumbnail_url" \in p.keys
                       THEN p.thumbnail_url ELSE NULL]

ApplyPatch(row, p) ==
    [id |-> row.id,
     title |-> IF "title" \in p.keys THEN p.title ELSE row.title,
     category_id |-> IF "category_id" \in p.keys
                     THEN p.category_id ELSE row.category_id,
     vimeo_id |-> IF "vimeo_id" \in p.keys THEN p.vimeo_id ELSE row.vimeo_id,
     thumbnail_url |-> IF "thumbnail_url" \in p.keys
                       THEN p.thumbnail_url ELSE row.thumbnail_url]

\* The UPDATE the session flushes: the columns whose value differs from
\* the loaded one are written, the others keep what the store holds.
FlushDirty(cur, loaded, new) ==
    [id |-> cur.id,
     title |-> IF new.title # loaded.title THEN new.title ELSE cur.title,
     category_id |-> IF new.category_id # loaded.category_id
                     THEN new.category_id ELSE cur.category_id,
     vimeo_id |-> IF new.vimeo_id # loaded.vimeo_id
                  THEN new.vimeo_id ELSE cur.vimeo_id,
     thumbnail_url |-> IF new.thumbnail_url # loaded.thumbnail_url
                       THEN new.thumbnail_url ELSE cur.thumbnail_url]

\* Lines 207-213: apply the patch, db.add, db.commit, db.refresh, whatever
\* the change set holds. The commit fails when the row is gone or its
\* category_id names no category (foreign key); nothing catches it.
UpdateCommit(ok) ==
    LET loaded == CHOOSE r \in updateReq.video : TRUE
        new == ApplyPatch(CHOOSE r \in updateReq.dirty : TRUE, updateReq.patch)
        cur == {r \in videos : r.id = loaded.id}
        row == FlushDirty(CHOOSE r \in cur : TRUE, loaded, new)
        r1 == [updateReq EXCEPT !.commit_called = TRUE, !.dirty = {new}]
    IN
    /\ updateReq.pc = "commit"
    /\ IF ok /\ cur # {} /\ row.category_id \in categories \cup {NULL}
       THEN /\ videos' = (videos \ cur) \cup {row}
            /\ updateReq' = [r1 EXCEPT !.pc = "done", !.status = "200",
                                       !.dirty = {row}]
       ELSE /\ videos' = videos
            /\ updateReq' = UpdateRaise(r1, "500", "Internal Server Error")
    /\ UNCHANGED <<users, categories, comments, likes, externVars, likeReq,
                   createReq, deleteReq, crudReq, readReq>>

\* The response is sent; the next request may arrive.
UpdateRespond ==
    /\ updateReq.pc = "done"
    /\ updateReq' = IdleUpdateReq(updateReq.n)
    /\ UNCHANGED <<catalogVars, externVars, likeReq, createReq, deleteReq,
                   crudReq, readReq>>

\* ------------------------------------------- categories, users, comments
\* The crud call in flight; n counts the comments rows inserted so far (a
\* comment's id is a fresh uuid4, never one used before), rows are the ids
\* of the child rows the flush of the call updated.
IdleCrudReq(n) ==
    [pc |-> "idle", n |-> n, op |-> "none", id |-> NULL, user_id |-> NULL,
     text |-> "none", rows |-> {}, exc |-> "none"]

CrudRaise(r, exc) == [r EXCEPT !.pc = "done", !.exc = exc]

\* routers/categories.py delete_category, lines 40-42: load the category.
DeleteCategoryLoad(c) ==
    /\ crudReq.pc = "idle"
    /\ crudReq' =
         IF c \notin categories
         THEN CrudRaise([crudReq EXCEPT !.op = "delete_category", !.id = c],
                        "HTTPException(404)")
         ELSE [crudReq EXCEPT !.pc = "commit", !.op = "delete_category",
                              !.id = c]
    /\ UNCHANGED <<catalogVars, externVars, likeReq, createReq, deleteReq,
                   updateReq, readReq>>

\* crud.delete_category: db.delete(category) and COMMIT. Category.videos is
\* a relationship without a delete cascade, so the flush first sets the
\* nullable category_id of the category's videos to NULL, then deletes the
\* categories row.
crud_delete_category_Cascade ==
    /\ crudReq.pc = "commit"
    /\ crudReq.op = "delete_category"
    /\ videos' = {r \in videos : r.category_id # crudReq.id}
    /\ categories' = categories \ {crudReq.id}
    /\ crudReq' = [crudReq EXCEPT !.pc = "done"]
    /\ UNCHANGED <<users, comments, likes, externVars, likeReq, createReq,
                   deleteReq, updateReq, readReq>>

crud_delete_category ==
    /\ crudReq.pc = "commit"
    /\ crudReq.op = "delete_category"
    /\ videos' = {IF r.category_id = crudReq.id
                  THEN [r EXCEPT !.category_id = NULL] ELSE r : r \in videos}
    /\ categories' = categories \ {crudReq.id}
    /\ crudReq' = [crudReq EXCEPT
            !.pc = "done",
            !.rows = {r.id : r \in {x \in videos : x.category_id = crudReq.id}}]
    /\ UNCHANGED <<users, comments, likes, externVars, likeReq, createReq,
                   deleteReq, updateReq, readReq>>

\* routers/users.py delete_self: get_current_user looks the caller up (401
\* for a token whose user is gone).
DeleteSelf(u) ==
    /\ crudReq.pc = "idle"
    /\ crudReq' =
         IF u \notin users
         THEN CrudRaise([crudReq EXCEPT !.op = "delete_user", !.user_id = u],
                        "HTTPException(401)")
         ELSE [crudReq EXCEPT !.pc = "commit", !.op = "delete_user",
                              !.user_id = u]
    /\ UNCHANGED <<catalogVars, externVars, likeReq, createReq, deleteReq,
                   updateReq, readReq>>

\* crud.delete_user: db.delete(user) and COMMIT. User.likes and
\* User.comments are relationships without a delete cascade, so the flush
\* first sets likes.user_id and comments.user_id of the user's rows to NULL;
\* both columns are NOT NULL, the store rejects the UPDATE, and the
\* IntegrityError leaves the function with nothing changed.
crud_delete_user ==
    LET u == crudReq.user_id
        owns == \/ \E pr \in Pairs : pr[1] = u /\ likes[pr] > 0
                \/ \E c \in comments : c.user_id = u
    IN
    /\ crudReq.pc = "commit"
    /\ crudReq.op = "delete_user"
    /\ IF owns
       THEN /\ users' = users
            /\ crudReq' = CrudRaise(crudReq, "IntegrityError(not null)")
       ELSE /\ users' = users \ {u}
            /\ crudReq' = [crudReq EXCEPT !.pc = "done"]
    /\ UNCHANGED <<categories, videos, comments, likes, externVars, likeReq,
                   createReq, deleteReq, updateReq, readReq>>

\* crud.add_comment: INSERT of the comments row and COMMIT; user_id and
\* video_id are foreign keys.
crud_add_comment(u, v) ==
    /\ crudReq.pc = "idle"
    /\ crudReq.n < MaxComments
    /\ IF u \notin users \/ ~VideoExists(v)
       THEN /\ comments' = comments
            /\ crudReq' = CrudRaise(
                    [crudReq EXCEPT !.op = "add_comment", !.user_id = u],
                    "IntegrityError(foreign key)")
       ELSE /\ comments' = comments \cup
                    {[id |-> crudReq.n + 1, user_id |-> u, video_id |-> v,
                      text |-> "text"]}
            /\ crudReq' = [crudReq EXCEPT
                    !.pc = "done", !.n = crudReq.n + 1, !.op = "add_comment",
                    !.id = crudReq.n + 1, !.user_id = u]
    /\ UNCHANGED <<users, categories, videos, likes, externVars, likeReq,
                   createReq, deleteReq, updateReq, readReq>>

\* The children crud.get_video loads with video v (joinedload of comments
\* and likes): the ids of its comments and, negated, the user_id of its
\* likes.
LoadedChildren(v) ==
    {c.id : c \in {x \in comments : x.video_id = v}}
        \cup {-u : u \in {x \in Users : likes[<<x, v>>] > 0}}

\* A caller of crud.delete_video holds a Video it loaded with
\* crud.get_video; there is no call for a video that was not found.
DeleteVideoGet(v) ==
    /\ crudReq.pc = "idle"
    /\ VideoExists(v)
    /\ crudReq' = [crudReq EXCEPT !.pc = "commit", !.op = "delete_video",
                                  !.id = v, !.rows = LoadedChildren(v)]
    /\ UNCHANGED <<catalogVars, externVars, likeReq, createReq, deleteReq,
                   updateReq, readReq>>

\* crud.delete_video: db.delete(video) and COMMIT. Video.likes and
\* Video.comments are relationships without a delete cascade: for the
\* children loaded with the video the flush sets video_id to NULL, which
\* the NOT NULL columns reject (or which finds the row gone); without
\* loaded children the DELETE of the videos row is sent, and the foreign
\* keys of likes and comments reject it while a row references the video.
\* The provider's asset and the thumbnail file are not touched.
crud_delete_video ==
    LET v == crudReq.id
        kept == crudReq.rows \cap LoadedChildren(v)
        excs == IF crudReq.rows # {}
                THEN (IF kept # {} THEN {"IntegrityError(not null)"} ELSE {})
                     \cup (IF kept # crudReq.rows
                           THEN {"StaleDataError"} ELSE {})
                ELSE IF ~VideoExists(v) THEN {"StaleDataError"}
                ELSE IF LoadedChildren(v) # {}
                THEN {"IntegrityError(foreign key)"}
                ELSE {"none"}
    IN
    /\ crudReq.pc = "commit"
    /\ crudReq.op = "delete_video"
    /\ \E exc \in excs :
          IF exc = "none"
          THEN /\ videos' = {r \in videos : r.id # v}
               /\ crudReq' = [crudReq EXCEPT !.pc = "done"]
          ELSE /\ videos' = videos
               /\ crudReq' = CrudRaise(crudReq, exc)
    /\ UNCHANGED <<users, categories, comments, likes, externVars, likeReq,
                   createReq, deleteReq, updateReq, readReq>>

\* The ownership test of update_comment and delete_comment.
NotAuthor_Never(row, u) == FALSE

NotAuthor(row, u) == row.user_id # u

\* crud.update_comment, lines 249-258, and crud.delete_comment, lines
\* 267-276: SELECT the comment; ValueError when there is none or when the
\* caller is not its author.
CommentSelect(op, id, u) ==
    LET found == {c \in comments : c.id = id}
        r == [crudReq EXCEPT !.op = op, !.id = id, !.user_id = u]
    IN
    /\ crudReq.pc = "idle"
    /\ crudReq' =
         IF found = {}
         THEN CrudRaise(r, "ValueError(Comment not found)")
         ELSE IF NotAuthor(CHOOSE c \in found : TRUE, u)
         THEN CrudRaise(r, "ValueError(You are not authorized)")
         ELSE [r EXCEPT !.pc = "commit"]
    /\ UNCHANGED <<catalogVars, externVars, likeReq, createReq, deleteReq,
                   updateReq, readReq>>

UpdateCommentSelect(id, u) == CommentSelect("update_comment", id, u)

DeleteCommentSelect(id, u) == CommentSelect("delete_comment", id, u)

\* crud.update_comment, lines 260-264: set the text and COMMIT; the UPDATE
\* of a row that is gone raises StaleDataError.
UpdateCommentCommit ==
    LET found == {c \in comments : c.id = crudReq.id} IN
    /\ crudReq.pc = "commit"
    /\ crudReq.op = "update_comment"
    /\ IF found = {}
       THEN /\ comments' = comments
            /\ crudReq' = CrudRaise(crudReq, "StaleDataError")
       ELSE /\ comments' = (comments \ found) \cup
                    {[c EXCEPT !.text = "edited"] : c \in found}
            /\ crudReq' = [crudReq EXCEPT !.pc = "done", !.text = "edited"]
    /\ UNCHANGED <<users, categories, videos, likes, externVars, likeReq,
                   createReq, deleteReq, updateReq, readReq>>

\* crud.delete_comment, lines 278-280: DELETE the row and COMMIT.
DeleteCommentCommit ==
    LET found == {c \in comments : c.id = crudReq.id} IN
    /\ crudReq.pc = "commit"
    /\ crudReq.op = "delete_comment"
    /\ IF found = {}
       THEN /\ comments' = comments
            /\ crudReq' = CrudRaise(crudReq, "StaleDataError")
       ELSE /\ comments' = comments \ found
            /\ crudReq' = [crudReq EXCEPT !.pc = "done"]
    /\ UNCHANGED <<users, categories, videos, likes, externVars, likeReq,
                   createReq, deleteReq, updateReq, readReq>>

\* The call returned or raised; the next call may arrive.
CrudRespond ==
    /\ crudReq.pc = "done"
    /\ crudReq' = IdleCrudReq(crudReq.n)
    /\ UNCHANGED <<catalogVars, externVars, likeReq, createReq, deleteReq,
                   updateReq, readReq>>

\* ------------------------------------------------------------- readers
\* A read request and the answer it got.
IdleReadReq ==
    [pc |-> "idle", op |-> "none", video_id |-> NULL, category_id |-> NULL,
     limit |-> 0, video |-> {}, comments |-> {}, likes |-> {}, like_count |-> 0,
     comment_count |-> 0, pages |-> <<>>]

\* crud.get_video: one SELECT of the video joined with its category, likes
\* and comments; the statement sees the rows committed when it runs.
ReadVideo(v) ==
    LET found == {r \in videos : r.id = v} IN
    /\ readReq.pc = "idle"
    /\ readReq' = [IdleReadReq EXCEPT
            !.pc = "done", !.op = "get_video", !.video_id = v,
            !.video = found,
            !.comments = IF found = {} THEN {}
                         ELSE {c \in comments : c.video_id = v},
            !.likes = IF found = {} THEN {}
                      ELSE {pr \in Pairs : pr[2] = v /\ likes[pr] > 0}]
    /\ UNCHANGED <<catalogVars, externVars, likeReq, createReq, deleteReq,
                   updateReq, crudReq>>

\* routers/likes.py get_like_count: the count endpoint.
ReadLikeCount(v) ==
    /\ readReq.pc = "idle"
    /\ readReq' = [IdleReadReq EXCEPT
            !.pc = "done", !.op = "get_like_count", !.video_id = v,
            !.like_count = get_like_count(v)]
    /\ UNCHANGED <<catalogVars, externVars, likeReq, createReq, deleteReq,
                   updateReq, crudReq>>

\* The orders in which the store may return a set of rows when the
\* statement has no ORDER BY: any.
Orders(S) ==
    {q \in [1..Cardinality(S) -> S] :
        \A i, j \in 1..Cardinality(S) : i # j => q[i] # q[j]}

\* OFFSET skip LIMIT limit over the rows in the order returned.
Page(q, skip, limit) ==
    SubSeq(q, skip + 1, IF skip + limit < Len(q) THEN skip + limit ELSE Len(q))

\* WHERE category_id = ..., when the request names a category.
Matching(cat) ==
    {r.id : r \in {x \in videos : cat = NULL \/ x.category_id = cat}}

\* One element of the answer: crud.get_all_videos reads the counts of the
\* video (lines 90-101); search_videos returns the rows, which
\* schemas.VideoResponse completes with its default counts.
ListEntry(op, v) ==
    IF op = "get_all_videos"
    THEN [id |-> v, like_count |-> get_like_count(v),
          comment_count |-> get_comment_count(v)]
    ELSE [id |-> v, like_count |-> 0, comment_count |-> 0]

\* The statement of crud.get_all_videos and of search_videos: OFFSET and
\* LIMIT, an optional category filter, no ORDER BY. The page joins the
\* pages the client fetched before.
ListPage(op, cat, skip, limit, q) ==
    LET page == Page(q, skip, limit) IN
    /\ q \in Orders(Matching(cat))
    /\ readReq' = [readReq EXCEPT
            !.pc = "done", !.op = op, !.category_id = cat, !.limit = limit,
            !.pages = Append(readReq.pages,
                             [i \in 1..Len(page) |-> ListEntry(op, page[i])])]
    /\ UNCHANGED <<catalogVars, externVars, likeReq, createReq, deleteReq,
                   updateReq, crudReq>>

\* routers/videos.py read_videos: a client asks for the first page of the
\* listing.
ReadVideos(cat, limit, q) ==
    /\ readReq.pc = "idle"
    /\ ListPage("get_all_videos", cat, 0, limit, q)

\* routers/videos.py search_videos: the first page of a search.
SearchVideos(cat, limit, q) ==
    /\ readReq.pc = "idle"
    /\ ListPage("search_videos", cat, 0, limit, q)

\* The client asks for the page after the ones it has.
ReadNextPage(q) ==
    /\ readReq.pc = "done"
    /\ readReq.op \in {"get_all_videos", "search_videos"}
    /\ Len(readReq.pages) < MaxPages
    /\ ListPage(readReq.op, readReq.category_id,
                Len(readReq.pages) * readReq.limit, readReq.limit, q)

\* The answer is sent; the next read may arrive.
ReadRespond ==
    /\ readReq.pc = "done"
    /\ readReq' = IdleReadReq
    /\ UNCHANGED <<catalogVars, externVars, likeReq, createReq, deleteReq,
                   updateReq, crudReq>>

\* ------------------------------------------------------ specifications
\* A videos row as crud.create_video writes it: asset i at the provider,
\* thumbnail blob i when it has one.
VideoRow(i, hasThumb) ==
    [id |-> i, title |-> "title", category_id |-> NULL, vimeo_id |-> i,
     thumbnail_url |-> IF hasThumb THEN i ELSE NULL]

NoRequests ==
    /\ likeReq = [p \in LikeProcs |-> IdleLikeReq("none", "none")]
    /\ createReq = IdleCreateReq(0)
    /\ deleteReq = IdleDeleteReq(0)
    /\ updateReq = IdleUpdateReq(0)
    /\ crudReq = IdleCrudReq(0)
    /\ readReq = IdleReadReq

\* Likes: workers serving like and unlike requests concurrently over a
\* catalog that holds the users and one published video; a request may
\* name any video id, also one without a videos row.
InitLike ==
    /\ users = Users
    /\ categories = CategoryIds
    /\ videos = {VideoRow(1, FALSE)}
    /\ comments = {}
    /\ likes = NoLikes
    /\ vimeo = {1}
    /\ thumbnails = {}
    /\ tempfiles = {}
    /\ providerLog = <<>>
    /\ NoRequests

NextLike ==
    \/ \E p \in LikeProcs, u \in Users, v \in VideoIds : AddLikeSelect(p, u, v)
    \/ \E p \in LikeProcs : AddLikeCommit(p)
    \/ \E p \in LikeProcs, u \in Users, v \in VideoIds : RemoveLikeSelect(p, u, v)
    \/ \E p \in LikeProcs : RemoveLikeCommit(p)

SpecLike == InitLike /\ [][NextLike]_vars

\* Create: create_video requests, one after the other, on a catalog that
\* starts without videos.
InitCreate ==
    /\ users = Users
    /\ categories \in SUBSET CategoryIds
    /\ videos = {}
    /\ comments = {}
    /\ likes = NoLikes
    /\ vimeo = {}
    /\ thumbnails = {}
    /\ tempfiles = {}
    /\ providerLog = <<>>
    /\ NoRequests

NextCreate ==
    \/ \E ct \in SentVideoTypes, th \in SentThumbnailTypes \cup {NoFile},
          cat \in CategoryIds : CreateStart(ct, th, cat)
    \/ CreateValidate
    \/ \E ok \in BOOLEAN : CreateSaveTemp(ok)
    \/ CreateThumbCheck
    \/ \E ok \in BOOLEAN : CreateSaveThumbTemp(ok)
    \/ \E ok \in BOOLEAN : CreateUpload(ok)
    \/ \E ok \in BOOLEAN : CreateStoreThumb(ok)
    \/ \E ok \in BOOLEAN : CreatePersist(ok)
    \/ \E rmVideo \in BOOLEAN, rmThumb \in BOOLEAN : CreateFinally(rmVideo, rmThumb)
    \/ CreateRespond

SpecCreate == InitCreate /\ [][NextCreate]_vars

\* The steps of a create_video request in the order of the handler's
\* statements.
CreateSteps ==
    <<"idle", "validate", "save_temp", "thumb_check", "save_thumb_temp",
      "upload", "store_thumb", "persist", "finally", "done">>

\* A step of a request in flight. The handler is one coroutine with no
\* loop: once the request has arrived, the event loop runs each of its
\* steps, and every call it awaits returns or raises.
CreateStep ==
    \/ CreateValidate
    \/ \E ok \in BOOLEAN : CreateSaveTemp(ok)
    \/ CreateThumbCheck
    \/ \E ok \in BOOLEAN : CreateSaveThumbTemp(ok)
    \/ \E ok \in BOOLEAN : CreateUpload(ok)
    \/ \E ok \in BOOLEAN : CreateStoreThumb(ok)
    \/ \E ok \in BOOLEAN : CreatePersist(ok)
    \/ \E rmVideo \in BOOLEAN, rmThumb \in BOOLEAN : CreateFinally(rmVideo, rmThumb)

SpecCreateFair == SpecCreate /\ WF_vars(CreateStep)

\* Delete: delete_video requests, one after the other, on a catalog of
\* published videos: videos 1..nt have a thumbnail, the provider may have
\* lost one asset, users 1..nl like every video, and comments 1..nc are
\* spread over the videos.
CommentRow(k) ==
    [id |-> k, user_id |-> ((k - 1) % NumUsers) + 1,
     video_id |-> ((k - 1) % NumVideos) + 1, text |-> "text"]

InitDelete ==
    /\ users = Users
    /\ categories = CategoryIds
    /\ \E nt \in 0..NumVideos :
          /\ videos = {VideoRow(i, i <= nt) : i \in VideoIds}
          /\ thumbnails = 1..nt
    /\ \E lost \in {{}} \cup {{i} : i \in VideoIds} : vimeo = VideoIds \ lost
    /\ \E nc \in 0..MaxComments : comments = {CommentRow(k) : k \in 1..nc}
    /\ \E nl \in 0..NumUsers :
          likes = [pr \in Pairs |-> IF pr[1] <= nl THEN 1 ELSE 0]
    /\ tempfiles = {}
    /\ providerLog = <<>>
    /\ NoRequests

NextDelete ==
    \/ \E v \in VideoIds : DeleteStart(v)
    \/ DeleteLoad
    \/ \E resp \in DeleteResponses : DeleteVimeo(resp)
    \/ DeleteComments
    \/ DeleteLikes
    \/ DeleteVideoRow
    \/ \E ok \in BOOLEAN : DeleteThumbnail(ok)
    \/ \E ok \in BOOLEAN : DeleteCommit(ok)
    \/ DeleteAbort
    \/ DeleteRespond

SpecDelete == InitDelete /\ [][NextDelete]_vars

\* Update: update_video requests, one after the other, while categories
\* are being deleted, on a catalog that holds one published video with a
\* thumbnail and a category; a request may name any video id.
InitUpdate ==
    /\ users = Users
    /\ categories = CategoryIds
    /\ videos = {[VideoRow(1, TRUE) EXCEPT !.category_id = 1]}
    /\ thumbnails = {1}
    /\ comments = {}
    /\ likes = NoLikes
    /\ vimeo = {1}
    /\ tempfiles = {}
    /\ providerLog = <<>>
    /\ NoRequests

NextUpdate ==
    \/ \E v \in VideoIds, keys \in SUBSET VideoUpdateFields,
          th \in SentThumbnailTypes \cup {NoFile} :
          \E cat \in IF "category_id" \in keys THEN PatchCategories ELSE {NULL},
             url \in IF "thumbnail_url" \in keys THEN PatchUrls ELSE {NULL} :
             UpdateStart(v, Patch(keys, cat, url), th)
    \/ UpdateLoad
    \/ UpdateCheckCategory
    \/ \E outcome \in WriteOutcomes : UpdateThumbnail(outcome)
    \/ \E ok \in BOOLEAN : UpdateCommit(ok)
    \/ UpdateRespond
    \/ \E c \in CategoryIds : DeleteCategoryLoad(c)
    \/ crud_delete_category
    \/ CrudRespond

SpecUpdate == InitUpdate /\ [][NextUpdate]_vars

\* Publish: create_video requests with well-typed files on a healthy local
\* disk (the provider and the store may fail) and update_video requests
\* that edit the videos so published, one request after the other.
InitPublish ==
    /\ users = Users
    /\ categories = CategoryIds
    /\ videos = {}
    /\ comments = {}
    /\ likes = NoLikes
    /\ vimeo = {}
    /\ thumbnails = {}
    /\ tempfiles = {}
    /\ providerLog = <<>>
    /\ NoRequests

NextPublish ==
    \/ /\ updateReq.pc = "idle"
       /\ \E th \in {"image/png", NoFile}, cat \in CategoryIds :
             CreateStart("video/mp4", th, cat)
    \/ CreateValidate
    \/ CreateSaveTemp(TRUE)
    \/ CreateThumbCheck
    \/ CreateSaveThumbTemp(TRUE)
    \/ \E ok \in BOOLEAN : CreateUpload(ok)
    \/ CreateStoreThumb(TRUE)
    \/ \E ok \in BOOLEAN : CreatePersist(ok)
    \/ CreateFinally(TRUE, TRUE)
    \/ CreateRespond
    \/ /\ createReq.pc = "idle"
       /\ \E v \in VideoIds, keys \in SUBSET VideoUpdateFields :
             UpdateStart(v, Patch(keys, NULL, NULL), NoFile)
    \/ UpdateLoad
    \/ UpdateCheckCategory
    \/ UpdateThumbnail("written")
    \/ \E ok \in BOOLEAN : UpdateCommit(ok)
    \/ UpdateRespond

SpecPublish == InitPublish /\ [][NextPublish]_vars

\* Read: delete_video requests, one after the other, with a reader that
\* fetches single videos at any moment, on a catalog of published videos
\* with thumbnails: users 1..nl like every video, comments 1..nc are spread
\* over the videos.
InitRead ==
    /\ users = Users
    /\ categories = CategoryIds
    /\ videos = {VideoRow(i, TRUE) : i \in VideoIds}
    /\ thumbnails = VideoIds
    /\ vimeo = VideoIds
    /\ \E nc \in 0..MaxComments : comments = {CommentRow(k) : k \in 1..nc}
    /\ \E nl \in 0..NumUsers :
          likes = [pr \in Pairs |-> IF pr[1] <= nl THEN 1 ELSE 0]
    /\ tempfiles = {}
    /\ providerLog = <<>>
    /\ NoRequests

NextRead ==
    \/ NextDelete
    \/ \E v \in VideoIds : ReadVideo(v)
    \/ ReadRespond

SpecRead == InitRead /\ [][NextRead]_vars

\* Engage: like and unlike requests, comment calls, delete_video requests
\* and reads of the counts, one after the other, on a catalog that holds
\* the users and one published video; a request may name any video id.
InitEngage ==
    /\ users = Users
    /\ categories = CategoryIds
    /\ videos = {VideoRow(1, FALSE)}
    /\ comments = {}
    /\ likes = NoLikes
    /\ vimeo = {1}
    /\ thumbnails = {}
    /\ tempfiles = {}
    /\ providerLog = <<>>
    /\ NoRequests

\* No request of the engagement services is in flight.
Quiet ==
    /\ likeReq[1].pc = "idle"
    /\ crudReq.pc = "idle"
    /\ deleteReq.pc = "idle"
    /\ readReq.pc = "idle"

NextEngage ==
    \/ /\ Quiet
       /\ \/ \E u \in Users, v \in VideoIds : AddLikeSelect(1, u, v)
          \/ \E u \in Users, v \in VideoIds : RemoveLikeSelect(1, u, v)
          \/ \E u \in Users, v \in VideoIds : crud_add_comment(u, v)
          \/ \E id \in 1..MaxComments, u \in Users : DeleteCommentSelect(id, u)
          \/ \E v \in VideoIds : DeleteStart(v)
          \/ \E v \in VideoIds : ReadLikeCount(v)
          \/ \E q \in Orders(Matching(NULL)) : ReadVideos(NULL, NumVideos, q)
    \/ AddLikeCommit(1)
    \/ RemoveLikeCommit(1)
    \/ DeleteCommentCommit
    \/ CrudRespond
    \/ DeleteLoad
    \/ \E resp \in DeleteResponses : DeleteVimeo(resp)
    \/ DeleteComments
    \/ DeleteLikes
    \/ DeleteVideoRow
    \/ \E ok \in BOOLEAN : DeleteThumbnail(ok)
    \/ \E ok \in BOOLEAN : DeleteCommit(ok)
    \/ DeleteAbort
    \/ DeleteRespond
    \/ ReadRespond

SpecEngage == InitEngage /\ [][NextEngage]_vars

\* List: clients page through the listing and the search over a catalog
\* that does not change: every video has a category or none, users 1..nl
\* like every video.
InitList ==
    /\ users = Users
    /\ categories = CategoryIds
    /\ \E cat \in [VideoIds -> CategoryIds \cup {NULL}] :
          videos = {[VideoRow(i, FALSE) EXCEPT !.category_id = cat[i]] :
                       i \in VideoIds}
    /\ comments = {}
    /\ \E nl \in 0..NumUsers :
          likes = [pr \in Pairs |-> IF pr[1] <= nl THEN 1 ELSE 0]
    /\ vimeo = VideoIds
    /\ thumbnails = {}
    /\ tempfiles = {}
    /\ providerLog = <<>>
    /\ NoRequests

NextList ==
    \/ \E cat \in CategoryIds \cup {NULL}, limit \in 1..NumVideos :
          \E q \in Orders(Matching(cat)) : ReadVideos(cat, limit, q)
    \/ \E cat \in CategoryIds \cup {NULL}, limit \in 1..NumVideos :
          \E q \in Orders(Matching(cat)) : SearchVideos(cat, limit, q)
    \/ \E q \in Orders(Matching(readReq.category_id)) : ReadNextPage(q)
    \/ ReadRespond

SpecList == InitList /\ [][NextList]_vars

\* Admin: categories and users are deleted, one call after the other, on
\* a catalog of published videos: every video has a category or none,
\* users 1..nl like every video, comments 1..nc are spread over the videos
\* and the users.
InitAdmin ==
    /\ users = Users
    /\ categories = CategoryIds
    /\ \E cat \in [VideoIds -> CategoryIds \cup {NULL}] :
          videos = {[VideoRow(i, FALSE) EXCEPT !.category_id = cat[i]] :
                       i \in VideoIds}
    /\ \E nc \in 0..MaxComments : comments = {CommentRow(k) : k \in 1..nc}
    /\ \E nl \in 0..NumUsers :
          likes = [pr \in Pairs |-> IF pr[1] <= nl THEN 1 ELSE 0]
    /\ vimeo = VideoIds
    /\ thumbnails = {}
    /\ tempfiles = {}
    /\ providerLog = <<>>
    /\ NoRequests

NextAdmin ==
    \/ \E c \in CategoryIds : DeleteCategoryLoad(c)
    \/ crud_delete_category
    \/ \E u \in Users : DeleteSelf(u)
    \/ crud_delete_user
    \/ CrudRespond

SpecAdmin == InitAdmin /\ [][NextAdmin]_vars

\* Comment: comments are written, edited and deleted, one call after the
\* other, by any user on a catalog that holds the users and one published
\* video; a call may name any video id and any comment id.
InitComment ==
    /\ users = Users
    /\ categories = CategoryIds
    /\ videos = {VideoRow(1, FALSE)}
    /\ comments = {}
    /\ likes = NoLikes
    /\ vimeo = {1}
    /\ thumbnails = {}
    /\ tempfiles = {}
    /\ providerLog = <<>>
    /\ NoRequests

NextComment ==
    \/ \E u \in Users, v \in VideoIds : crud_add_comment(u, v)
    \/ \E id \in 1..MaxComments, u \in Users : UpdateCommentSelect(id, u)
    \/ UpdateCommentCommit
    \/ \E id \in 1..MaxComments, u \in Users : DeleteCommentSelect(id, u)
    \/ DeleteCommentCommit
    \/ CrudRespond

SpecComment == InitComment /\ [][NextComment]_vars

\* Integrity: videos are published and deleted (by the route handler and
\* by crud.delete_video), users delete themselves, likes and comments are
\* added and removed, on a catalog that starts with the users and no
\* video. A video is published when there is none; comments are written
\* by user 1, likes are given to video 1, the id of the one video there is
\* at a time. The requests come one after the other, except that a like
\* may be added at any point of a delete_video request of the route
\* handler.
InitIntegrity ==
    /\ users = Users
    /\ categories = CategoryIds
    /\ videos = {}
    /\ comments = {}
    /\ likes = NoLikes
    /\ vimeo = {}
    /\ thumbnails = {}
    /\ tempfiles = {}
    /\ providerLog = <<>>
    /\ NoRequests

\* No request is under way.
AllIdle ==
    /\ createReq.pc = "idle"
    /\ deleteReq.pc = "idle"
    /\ crudReq.pc = "idle"
    /\ likeReq[1].pc = "idle"

NextIntegrity ==
    \/ /\ AllIdle
       /\ videos = {}
       /\ \E cat \in CategoryIds : CreateStart("video/mp4", NoFile, cat)
    \/ /\ AllIdle
       /\ \/ \E v \in VideoIds : DeleteStart(v)
          \/ \E v \in VideoIds : DeleteVideoGet(v)
          \/ \E u \in Users : DeleteSelf(u)
          \/ \E v \in VideoIds : crud_add_comment(1, v)
          \/ \E id \in 1..MaxComments : DeleteCommentSelect(id, 1)
          \/ \E u \in Users : RemoveLikeSelect(1, u, 1)
    \/ /\ createReq.pc = "idle"
       /\ crudReq.pc = "idle"
       /\ \E u \in Users : AddLikeSelect(1, u, 1)
    \/ CreateValidate
    \/ CreateSaveTemp(TRUE)
    \/ CreateThumbCheck
    \/ CreateUpload(TRUE)
    \/ CreateStoreThumb(TRUE)
    \/ \E ok \in BOOLEAN : CreatePersist(ok)
    \/ CreateFinally(TRUE, TRUE)
    \/ CreateRespond
    \/ DeleteLoad
    \/ DeleteVimeo("204")
    \/ DeleteComments
    \/ DeleteLikes
    \/ DeleteVideoRow
    \/ DeleteThumbnail(TRUE)
    \/ \E ok \in BOOLEAN : DeleteCommit(ok)
    \/ DeleteRespond
    \/ crud_delete_video
    \/ crud_delete_user
    \/ DeleteCommentCommit
    \/ CrudRespond
    \/ AddLikeCommit(1)
    \/ RemoveLikeCommit(1)

SpecIntegrity == InitIntegrity /\ [][NextIntegrity]_vars

\* ---------------------------------------------------------- properties

\* C3: in every reachable state, after any sequence and interleaving of like
\* and unlike requests, each (user, video) pair has at most one likes row.
C3_AtMostOneLikePerPair == \A pr \in Pairs : likes[pr] <= 1

\* C3 witness: two like requests for one pair raced, the store rejected the
\* second INSERT, and the pair has its one row.
C3_Witness ==
    \E p \in LikeProcs :
        /\ likeReq[p].exc = "IntegrityError(unique_user_video_like)"
        /\ \E pr \in Pairs : likes[pr] = 1

\* C4 (violated by the code): a like request that passed its existence check and then
\* lost the race for the pair is answered with the conflict error (400), the
\* answer a sequential duplicate gets.
C4_RaceLoserGetsConflict ==
    \A p \in LikeProcs :
        likeReq[p].exc = "IntegrityError(unique_user_video_like)"
            => likeReq[p].status = "400"

\* C5: a like request that finds the pair already liked is answered with the
\* conflict error (400) and leaves the likes rows, and so the like count of
\* the video, unchanged.
C5_SecondLikeConflictNoChange ==
    [][\A p \in LikeProcs, u \in Users, v \in VideoIds :
          (AddLikeSelect(p, u, v) /\ likes[<<u, v>>] > 0)
              => /\ likeReq'[p].status = "400"
                 /\ likes' = likes
                 /\ get_like_count(v)' = get_like_count(v)]_vars

\* C5 witness: user 1 liked video 1, a second like of the pair was answered
\* 400, and the like count of the video is 1.
C5_Witness ==
    /\ \E p \in LikeProcs : likeReq[p].status = "400"
    /\ likes[<<1, 1>>] = 1
    /\ get_like_count(1) = 1

\* The provider calls of one kind issued for an asset.
Called(kind, asset) ==
    \E i \in DOMAIN providerLog : providerLog[i] = <<kind, asset>>

\* C6 (violated by the code): when saving the Video record fails after the upload
\* succeeded, create_video has asked the provider to delete the uploaded
\* asset by the time it returns its one error.
C6_PersistFailureCompensates ==
    (/\ createReq.pc = "done"
     /\ createReq.failed_at = "persist"
     /\ createReq.vimeo_data # NULL)
        => /\ createReq.status = "500"
           /\ Called("delete", createReq.vimeo_data)

\* C7 (violated by the code): when storing the thumbnail fails after the upload
\* succeeded, create_video still succeeds and has written the Video record
\* with the external reference set and no thumbnail.
C7_ThumbnailFailureStillCreates ==
    (/\ createReq.pc = "done"
     /\ createReq.failed_at = "store_thumb"
     /\ createReq.vimeo_data # NULL)
        => /\ createReq.status = "200"
           /\ \E row \in videos : /\ row.vimeo_id = createReq.vimeo_data
                                  /\ row.thumbnail_url = NULL

\* The request in flight has made no upload call, holds no asset at the
\* provider and has written no Video record.
CreateTouchedNothingExternal ==
    /\ ~Called("upload", createReq.n)
    /\ createReq.n \notin vimeo
    /\ createReq.vimeo_data = NULL
    /\ createReq.db_video = NULL
    /\ \A row \in videos : row.vimeo_id # createReq.n

\* C8: a create_video request with a valid video file and a thumbnail of an
\* unsupported type never makes an upload call, creates no external asset
\* and writes no Video record, and once the video was received it ends
\* with 415.
C8_BadThumbnailAbortsBeforeUpload ==
    (/\ createReq.pc # "idle"
     /\ createReq.content_type \in VideoTypes
     /\ createReq.thumbnail \notin ThumbnailTypes \cup {NoFile})
        => /\ CreateTouchedNothingExternal
           /\ createReq.pc \in {"validate", "save_temp", "thumb_check",
                                "finally", "done"}
           /\ (createReq.pc \in {"finally", "done"}
                 /\ createReq.failed_at # "save_temp")
                 => /\ createReq.status = "415"
                    /\ createReq.failed_at = "thumb_check"

\* C8 witness: such a request has ended with 415.
C8_Witness ==
    /\ createReq.pc = "done"
    /\ createReq.content_type \in VideoTypes
    /\ createReq.thumbnail \notin ThumbnailTypes \cup {NoFile}
    /\ createReq.status = "415"
    /\ createReq.temp_path # NoPath

\* C9: a create_video request whose declared video type is outside the
\* allow-list ends with 415 at the first check: no upload call, no asset,
\* no temporary or thumbnail file, no Video record.
C9_BadVideoTypeRejectedFirst ==
    (/\ createReq.pc # "idle"
     /\ createReq.content_type \notin VideoTypes)
        => /\ CreateTouchedNothingExternal
           /\ createReq.n \notin thumbnails
           /\ VideoTemp(createReq.n) \notin tempfiles
           /\ ThumbTemp(createReq.n) \notin tempfiles
           /\ createReq.pc \in {"validate", "finally", "done"}
           /\ createReq.pc \in {"finally", "done"}
                 => /\ createReq.status = "415"
                    /\ createReq.failed_at = "validate"

\* C9 witness: such a request, sent with a thumbnail, has ended with 415.
C9_Witness ==
    /\ createReq.pc = "done"
    /\ createReq.content_type \notin VideoTypes
    /\ createReq.thumbnail \in ThumbnailTypes
    /\ createReq.status = "415"

\* C10: a create_video request whose upload call failed ends with the
\* upload error (500) and has written no Video record and asked for no
\* deletion at the provider.
C10_UploadFailureAborts ==
    (/\ createReq.pc # "idle"
     /\ Called("upload", createReq.n)
     /\ createReq.n \notin vimeo)
        => /\ createReq.pc \in {"finally", "done"}
           /\ createReq.status = "500"
           /\ createReq.detail = "Failed to upload video to Vimeo"
           /\ createReq.db_video = NULL
           /\ \A row \in videos : row.vimeo_id # createReq.n
           /\ \A i \in DOMAIN providerLog : providerLog[i][1] # "delete"

\* C10 witness: an upload failed after an earlier request had published a
\* video; the request has ended.
C10_Witness ==
    /\ createReq.pc = "done"
    /\ Called("upload", createReq.n)
    /\ createReq.n \notin vimeo
    /\ createReq.thumbnail_path # NoPath
    /\ videos # {}

\* The video loaded by the delete request in flight, with the comments and
\* likes loaded with it, is still in the catalog as it was loaded.
DeleteAllPresent ==
    /\ deleteReq.video \subseteq videos
    /\ {c \in comments : c.video_id = deleteReq.video_id} = deleteReq.comments
    /\ {pr \in Pairs : pr[2] = deleteReq.video_id /\ likes[pr] > 0}
          = deleteReq.likes

\* The video of the delete request in flight is gone with all its comments
\* and likes.
DeleteAllGone ==
    /\ ~VideoExists(deleteReq.video_id)
    /\ get_comment_count(deleteReq.video_id) = 0
    /\ get_like_count(deleteReq.video_id) = 0

\* C1: when the provider's delete call fails (it raises, or answers with a
\* status other than 204), delete_video ends with the deletion error (500)
\* and the Video, its Comments and its Likes are all present, unchanged.
C1_ProviderFailureKeepsEverything ==
    deleteReq.response \notin {"none", "204"}
        => /\ deleteReq.pc = "done"
           /\ deleteReq.status = "500"
           /\ deleteReq.detail = "Vimeo API error"
           /\ DeleteAllPresent

\* C1 witness: the provider answered 500 for a video that has comments and
\* likes; the request has ended.
C1_Witness ==
    /\ deleteReq.pc = "done"
    /\ deleteReq.response = "500"
    /\ deleteReq.comments # {}
    /\ deleteReq.likes # {}

\* C2: at every point of a delete_video request, and after it ended in any
\* way, the Video row with all its Comments and Likes is either still
\* present as loaded or gone altogether.
C2_DeleteAllOrNone ==
    deleteReq.video # {} => DeleteAllPresent \/ DeleteAllGone

\* C2 witness: the asset was deleted at the provider, the comments were
\* deleted inside the transaction, then the request failed before its
\* commit completed; everything is still present.
C2_Witness ==
    /\ deleteReq.pc = "done"
    /\ deleteReq.status = "500"
    /\ deleteReq.response = "204"
    /\ deleteReq.failed_at \in {"likes", "video", "thumbnail", "commit"}
    /\ deleteReq.comments # {}
    /\ DeleteAllPresent

\* C11: in every reachable state every Video row of the catalog has a
\* non-empty external reference that names an asset an upload call created,
\* and no step of any request removes or changes the reference of a row.
C11_EveryVideoKeepsItsReference ==
    /\ [](\A row \in videos : /\ row.vimeo_id # NULL
                              /\ Called("upload", row.vimeo_id)
                              /\ row.vimeo_id \in vimeo)
    /\ [][\A r \in videos : \A r2 \in videos' :
             r2.id = r.id => r2.vimeo_id = r.vimeo_id]_vars

\* C11 witness: an upload failed and wrote no row, another video was
\* published and then retitled by an update; it has its reference.
C11_Witness ==
    /\ \E i \in DOMAIN providerLog :
          providerLog[i][1] = "upload" /\ providerLog[i][2] \notin vimeo
    /\ updateReq.pc = "done"
    /\ updateReq.status = "200"
    /\ \E row \in videos : /\ row.id = updateReq.video_id
                           /\ row.title = "retitled"
                           /\ row.vimeo_id # NULL

\* C12: a reader that fetches the video of the delete_video request in
\* flight sees it either with all the comments and likes the request loaded
\* or not at all, never the row with some of them removed and never
\* comments or likes without the row.
C12_ReaderSeesAllOrNothing ==
    (/\ readReq.op = "get_video"
     /\ deleteReq.video # {}
     /\ readReq.video_id = deleteReq.video_id)
        => \/ /\ readReq.video = deleteReq.video
              /\ readReq.comments = deleteReq.comments
              /\ readReq.likes = deleteReq.likes
           \/ /\ readReq.video = {}
              /\ readReq.comments = {}
              /\ readReq.likes = {}

\* C12 witness: the reader fetched a video with comments and likes while
\* the request deleting it had issued its DELETE statements and not yet
\* committed; it saw the video with all of them.
C12_Witness ==
    /\ readReq.op = "get_video"
    /\ readReq.video_id = deleteReq.video_id
    /\ deleteReq.pc = "commit"
    /\ deleteReq.tx_comments # {}
    /\ deleteReq.tx_likes # {}
    /\ readReq.video # {}
    /\ readReq.comments = deleteReq.comments
    /\ readReq.likes = deleteReq.likes

\* C13: no step of an update_video request that carries only a thumbnail
\* file changes the title or category of a video, and no step of a request
\* that carries only title and/or category removes a file from the
\* thumbnails directory or changes the thumbnail_url of a video.
C13_UpdateFrame ==
    [][(updateReq.pc # "idle" /\ updateReq' # updateReq) =>
          /\ (updateReq.patch.keys = {} /\ updateReq.thumbnail # NoFile)
                => \A r \in videos : \E r2 \in videos' :
                      /\ r2.id = r.id
                      /\ r2.title = r.title
                      /\ r2.category_id = r.category_id
          /\ (/\ updateReq.patch.keys # {}
              /\ updateReq.patch.keys \subseteq {"title", "category_id"}
              /\ updateReq.thumbnail = NoFile)
                => /\ thumbnails' = thumbnails
                   /\ \A r \in videos : \E r2 \in videos' :
                         /\ r2.id = r.id
                         /\ r2.thumbnail_url = r.thumbnail_url]_vars

\* C13 witness: a request that set title and category only has succeeded
\* on the video that has a thumbnail; the row still names it and the file
\* is in the thumbnails directory.
C13_Witness ==
    /\ updateReq.pc = "done"
    /\ updateReq.status = "200"
    /\ updateReq.patch.keys = {"title", "category_id"}
    /\ updateReq.thumbnail = NoFile
    /\ \E row \in videos : /\ row.id = updateReq.video_id
                           /\ row.title = "retitled"
                           /\ row.category_id = NULL
                           /\ row.thumbnail_url = 1
    /\ 1 \in thumbnails

\* C14: an update_video request writes nothing up to and including its
\* category check; a request whose patch names a category that does not
\* exist ends at that check with 400, having stored no thumbnail and called
\* no commit; and every Video row names an existing category or none, also
\* after a successful update.
C14_CategoryValidatedBeforeWrite ==
    /\ [][(updateReq' # updateReq /\ updateReq'.pc # "idle") =>
             /\ (updateReq'.pc \in {"load", "category", "thumbnail"}
                   \/ updateReq'.failed_at \in {"load", "category"})
                   => /\ videos' = videos
                      /\ thumbnails' = thumbnails
                      /\ ~updateReq'.commit_called
                      /\ updateReq'.stored = NULL
             /\ (/\ updateReq.pc = "category"
                 /\ "category_id" \in updateReq.patch.keys
                 /\ updateReq.patch.category_id \notin categories \cup {NULL})
                   => /\ updateReq'.pc = "done"
                      /\ updateReq'.status = "400"
                      /\ updateReq'.failed_at = "category"]_vars
    /\ [](\A row \in videos : row.category_id \in categories \cup {NULL})

\* C14 witness: a request that named a missing category and carried a
\* well-typed thumbnail was answered 400; no file of the request is in the
\* thumbnails directory and the video is as it was.
C14_Witness ==
    /\ updateReq.pc = "done"
    /\ updateReq.status = "400"
    /\ updateReq.thumbnail \in ThumbnailTypes
    /\ updateReq.patch.keys = VideoUpdateFields
    /\ updateReq.patch.category_id \notin categories \cup {NULL}
    /\ UpdateThumb(updateReq.n) \notin thumbnails
    /\ updateReq.video \subseteq videos

\* C15 (violated by the code): an update_video request with an empty patch
\* and no thumbnail is answered with the unchanged record without a commit
\* having been called on the store.
C15_NoOpUpdateTouchesNothing ==
    (/\ updateReq.pc = "done"
     /\ updateReq.status = "200"
     /\ updateReq.patch.keys = {}
     /\ updateReq.thumbnail = NoFile)
        => ~updateReq.commit_called

\* The likes rows and the comments rows of a video.
LikeRows(v) ==
    UNION {{<<pr, k>> : k \in 1..likes[pr]} : pr \in {x \in Pairs : x[2] = v}}

CommentRows(v) == {c \in comments : c.video_id = v}

\* C16: the like count answered by the count endpoint, and the like and
\* comment counts inside every element of a listing answer, equal the
\* number of likes rows and comments rows of the video in the catalog, after
\* any sequence of like, unlike, add-comment, delete-comment and
\* delete-video requests.
C16_CountsEqualRows ==
    readReq.pc = "done" =>
        /\ readReq.op = "get_like_count"
              => readReq.like_count = Cardinality(LikeRows(readReq.video_id))
        /\ readReq.op = "get_all_videos"
              => \A i \in DOMAIN readReq.pages :
                    \A j \in DOMAIN readReq.pages[i] :
                       LET e == readReq.pages[i][j] IN
                       /\ e.like_count = Cardinality(LikeRows(e.id))
                       /\ e.comment_count = Cardinality(CommentRows(e.id))

\* C16 witness: after a like, comments of which one was deleted, and a
\* failed delete_video, a listing answers the video with one like and one
\* comment.
C16_Witness ==
    /\ readReq.pc = "done"
    /\ readReq.op = "get_all_videos"
    /\ likeReq[1].op = "none"
    /\ likeReq[1].status = "200"
    /\ likes[<<1, 1>>] = 0
    /\ crudReq.n = MaxComments
    /\ deleteReq.n > 0
    /\ \E i \in DOMAIN readReq.pages : \E j \in DOMAIN readReq.pages[i] :
          /\ readReq.pages[i][j].like_count = 1
          /\ readReq.pages[i][j].comment_count = 1

\* The ids on page i of the answer the reader holds.
PageIds(i) == {readReq.pages[i][j].id : j \in DOMAIN readReq.pages[i]}

\* C17 (violated by the code): over an unchanged catalog the pages a client
\* fetched at successive offsets of the listing or the search are disjoint,
\* and once the offsets cover the matching videos every one of them is on
\* a page.
C17_PagesDisjointAndComplete ==
    readReq.op \in {"get_all_videos", "search_videos"} =>
        /\ \A i, j \in DOMAIN readReq.pages :
              i # j => PageIds(i) \cap PageIds(j) = {}
        /\ Len(readReq.pages) * readReq.limit
              >= Cardinality(Matching(readReq.category_id))
              => UNION {PageIds(i) : i \in DOMAIN readReq.pages}
                    = Matching(readReq.category_id)

\* C18: the step in which delete_category succeeds removes the category and
\* nothing else: every Video row still exists, the rows that named the
\* category name none, every other field of every row is as before, and
\* the likes and comments are unchanged.
C18_DeleteCategoryDetaches ==
    [][(/\ crudReq.op = "delete_category"
        /\ crudReq.pc = "commit"
        /\ crudReq'.pc = "done"
        /\ crudReq'.exc = "none") =>
          /\ categories' = categories \ {crudReq.id}
          /\ Cardinality(videos') = Cardinality(videos)
          /\ \A r \in videos : \E r2 \in videos' :
                /\ r2.id = r.id
                /\ r2.title = r.title
                /\ r2.vimeo_id = r.vimeo_id
                /\ r2.thumbnail_url = r.thumbnail_url
                /\ r2.category_id = IF r.category_id = crudReq.id
                                    THEN NULL ELSE r.category_id
          /\ likes' = likes
          /\ comments' = comments
          /\ users' = users]_vars

\* C18 witness: a category that every video named was deleted; the videos,
\* with their likes and comments, are in the catalog without a category.
C18_Witness ==
    /\ crudReq.pc = "done"
    /\ crudReq.op = "delete_category"
    /\ crudReq.exc = "none"
    /\ crudReq.id \notin categories
    /\ crudReq.rows = VideoIds
    /\ \A v \in VideoIds : \E r \in videos : r.id = v /\ r.category_id = NULL
    /\ comments # {}
    /\ \E pr \in Pairs : likes[pr] > 0

\* C19 (violated by the code): delete_user called by a user who has likes
\* or comments succeeds and leaves neither the user nor any of the user's
\* likes and comments in the catalog.
C19_DeleteUserCascades ==
    (/\ crudReq.pc = "done"
     /\ crudReq.op = "delete_user"
     /\ crudReq.exc # "HTTPException(401)")
        => /\ crudReq.exc = "none"
           /\ crudReq.user_id \notin users
           /\ \A pr \in Pairs : pr[1] = crudReq.user_id => likes[pr] = 0
           /\ \A c \in comments : c.user_id # crudReq.user_id

\* C20: an update_comment or delete_comment call on an existing comment by
\* a caller who is not its author raises the authorization error and
\* changes no comment; a call by the author goes on to its commit, which
\* succeeds and edits or removes that comment; and no step edits or
\* removes a comment on behalf of anyone but its author.
C20_OnlyAuthorMutatesComment ==
    [][/\ (/\ crudReq.pc = "idle"
           /\ crudReq'.op \in {"update_comment", "delete_comment"})
          => \A c \in comments : c.id = crudReq'.id =>
                IF c.user_id # crudReq'.user_id
                THEN /\ crudReq'.pc = "done"
                     /\ crudReq'.exc = "ValueError(You are not authorized)"
                     /\ comments' = comments
                ELSE /\ crudReq'.pc = "commit"
                     /\ comments' = comments
       /\ (/\ crudReq.pc = "commit"
           /\ crudReq.op \in {"update_comment", "delete_comment"}
           /\ crudReq' # crudReq)
          => /\ crudReq'.pc = "done"
             /\ crudReq'.exc = "none"
             /\ \A c \in comments : c.id = crudReq.id =>
                   IF crudReq.op = "delete_comment"
                   THEN comments' = comments \ {c}
                   ELSE comments' = (comments \ {c})
                                       \cup {[c EXCEPT !.text = "edited"]}
       /\ \A c \in comments :
             c \notin comments' => crudReq.user_id = c.user_id]_vars

\* C20 witness: a comment its author had edited stands as edited after a
\* delete_comment call by another user was refused.
C20_Witness ==
    /\ crudReq.pc = "done"
    /\ crudReq.op = "delete_comment"
    /\ crudReq.exc = "ValueError(You are not authorized)"
    /\ \E c \in comments : /\ c.id = crudReq.id
                           /\ c.user_id # crudReq.user_id
                           /\ c.text = "edited"

\* C21: a delete_video request that was not ended by the lookup, by the
\* provider call or by a database step (the row deletes, the commit)
\* answers 200 and the Video, its Comments and its Likes are gone, whether
\* or not the removal of the thumbnail file failed.
C21_ThumbnailFailureNeverFailsDelete ==
    (/\ deleteReq.pc = "done"
     /\ deleteReq.failed_at \notin
            {"load", "vimeo", "comments", "likes", "video", "commit"})
        => /\ deleteReq.status = "200"
           /\ DeleteAllGone

\* C21 witness: the removal of the thumbnail file failed (the file is still
\* in the store), the request answered 200 and the video, which had
\* comments and likes, is gone.
C21_Witness ==
    /\ deleteReq.pc = "done"
    /\ deleteReq.status = "200"
    /\ \E row \in deleteReq.video : /\ row.thumbnail_url # NULL
                                    /\ row.thumbnail_url \in thumbnails
    /\ deleteReq.comments # {}
    /\ deleteReq.likes # {}
    /\ DeleteAllGone

\* C22 (violated by the code): delete_video keeps the step order. No
\* Comment, Like or Video row is deleted, inside the transaction or in the
\* catalog, before the provider was asked to delete the asset; the Comments
\* are deleted before the Likes and the Likes before the Video row; and the
\* thumbnail file is removed only once the Video row is gone from the
\* catalog.
C22_DeleteStepOrder ==
    /\ [](\A row \in deleteReq.video :
            (deleteReq.tx_comments # {} \/ deleteReq.tx_likes # {}
                 \/ deleteReq.tx_video)
               => (row.vimeo_id = NULL \/ deleteReq.response = "204"))
    /\ [][(videos' # videos \/ comments' # comments \/ likes' # likes)
             => \A row \in deleteReq.video :
                   row.vimeo_id = NULL \/ deleteReq.response = "204"]_vars
    /\ [](deleteReq.tx_likes # {}
             => deleteReq.tx_comments = deleteReq.comments)
    /\ [](deleteReq.tx_video
             => /\ deleteReq.tx_comments = deleteReq.comments
                /\ deleteReq.tx_likes = deleteReq.likes)
    /\ [][thumbnails' # thumbnails
             => ~VideoExists(deleteReq.video_id)]_vars

\* C23 (violated by the code): once an update_video request that wrote a
\* new thumbnail file for a video that had one has answered 200, the file
\* the video named before is gone from the store; a thumbnail file is only
\* removed when the request's new file is stored and its commit is done;
\* and every thumbnail file a row of the catalog names is in the store.
C23_OldThumbnailReplaced ==
    /\ [](\A old \in updateReq.video :
            (/\ updateReq.pc = "done"
             /\ updateReq.status = "200"
             /\ updateReq.stored # NULL
             /\ old.thumbnail_url \notin {NULL, ExternalUrl})
               => old.thumbnail_url \notin thumbnails)
    /\ [][~(thumbnails \subseteq thumbnails')
             => /\ updateReq.stored \in thumbnails
                /\ updateReq.commit_called
                /\ updateReq.status = "200"]_vars
    /\ [](\A row \in videos :
            row.thumbnail_url \in thumbnails \cup {NULL, ExternalUrl})

\* C24 (violated by the code): a delete_video request whose provider call
\* was answered 404 (asset unknown or already removed) is not ended by
\* that answer: it goes on to delete the Comments, the Likes and the Video
\* row.
C24_NotFoundIsSuccess ==
    deleteReq.response = "404"
        => /\ deleteReq.failed_at # "vimeo"
           /\ deleteReq.pc = "done" /\ deleteReq.failed_at = "none"
                 => deleteReq.status = "200" /\ DeleteAllGone

\* C25 (violated by the code): when a create_video request has ended, by
\* returning or by raising at any step, none of the temporary files the
\* attempt created is left on disk.
C25_NoTempFileLeft ==
    createReq.pc = "done"
        => /\ VideoTemp(createReq.n) \notin tempfiles
           /\ ThumbTemp(createReq.n) \notin tempfiles

\* Position of a step in the order of the handler's statements.
StepIndex(pc) == CHOOSE i \in DOMAIN CreateSteps : CreateSteps[i] = pc

\* Number of upload calls attempt n made to the provider.
UploadCalls(n) ==
    Cardinality({i \in DOMAIN providerLog : providerLog[i] = <<"upload", n>>})

C27_SurvivorKeepsThumbnail ==
    deleteReq.pc \in {"idle", "done"}
        => \A row \in videos :
              row.thumbnail_url # NULL => row.thumbnail_url \in thumbnails

\* C28 (violated by the code): once a create_video request has ended, with
\* the record persisted or not, every file in the thumbnail store is named
\* by some Video row of the catalog.
C28_NoUnreferencedThumbnail ==
    createReq.pc \in {"idle", "done"}
        => \A b \in thumbnails : \E row \in videos : row.thumbnail_url = b

\* C29 (violated by the code): once an update_video request that came with
\* a thumbnail file has answered 200, the video's row in the catalog names
\* the file the request stored, whatever keys and values the patch holds.
C29_NewThumbnailWins ==
    (/\ updateReq.pc = "done"
     /\ updateReq.status = "200"
     /\ updateReq.thumbnail # NoFile)
        => /\ updateReq.stored \in thumbnails
           /\ \A row \in videos :
                 row.id = updateReq.video_id
                    => row.thumbnail_url = updateReq.stored

\* C30: in every reachable state every likes row and every comments row
\* names a user that is in table users and a video that is in table
\* videos.
C30_ReferentialIntegrity ==
    /\ \A pr \in Pairs :
          likes[pr] > 0 => pr[1] \in users /\ VideoExists(pr[2])
    /\ \A c \in comments : c.user_id \in users /\ VideoExists(c.video_id)

\* C30 witness: a video was deleted and another one published, a user
\* deleted themself, and a delete_video request for the video, started
\* when it had no like, failed at its commit after a like was added to the
\* video; the comment and the like are there with the video and their
\* users.
C30_Witness ==
    /\ createReq.n > 1
    /\ users # Users
    /\ comments # {}
    /\ deleteReq.pc = "done"
    /\ deleteReq.failed_at = "commit"
    /\ deleteReq.likes = {}
    /\ get_like_count(deleteReq.video_id) > 0
    /\ VideoExists(deleteReq.video_id)

====
